---- MODULE Spec2Model ----
(***************************************************************************)
(* Model of families/track_and_trade/client/src/views/fish_detail.js:      *)
(* the FishDetail page (record, owner and custodian fetches, the           *)
(* conditional controls of its view), the TransferDropdown, ReportLocation *)
(* and ReportValue sub-components, and the three submission helpers        *)
(* _doTransfer, _updateProperty and _finalizeRecord.                       *)
(***************************************************************************)
EXTENDS FiniteSets, Integers, Sequences, TLC

\* ------------------------------------------------------------------ bounds
MaxSubmits == 1

\* ------------------------------------------------------------ value domains
Keys == {"k1", "k2"}
NoKey == "none"
Users == {"k1", NoKey}
RecordId == "fish-1"

ReportableNames == {"location", "temperature", "tilt", "shock"}
PropertyNames == ReportableNames \cup {"species", "length", "weight"}
Roles == {"OWNER", "CUSTODIAN"}

\* JavaScript values held by the form fields and put into payloads
JSUndefined == [t |-> "undefined"]
JSNaN == [t |-> "NaN"]
JSString(s) == [t |-> "string", s |-> s]
JSNumber(neg, whole, frac) == [t |-> "number", neg |-> neg, whole |-> whole, frac |-> frac]

Inputs == { <<"-", "1", ".", "5", "0">>, <<"a">> }

DigitChars == <<"0", "1", "2", "3", "4", "5", "6", "7", "8", "9">>
IsDigit(c) == \E i \in 1..10 : DigitChars[i] = c
DigitVal(c) == (CHOOSE i \in 1..10 : DigitChars[i] = c) - 1

RECURSIVE TakeDigits(_)
TakeDigits(s) ==
  IF s = <<>> \/ ~IsDigit(Head(s)) THEN <<>>
  ELSE <<Head(s)>> \o TakeDigits(Tail(s))

RECURSIVE DigitsToNat(_)
DigitsToNat(ds) ==
  IF ds = <<>> THEN 0
  ELSE DigitsToNat(SubSeq(ds, 1, Len(ds) - 1)) * 10 + DigitVal(ds[Len(ds)])

RECURSIVE StripTrailingZeros(_)
StripTrailingZeros(ds) ==
  IF ds # <<>> /\ ds[Len(ds)] = "0" THEN StripTrailingZeros(SubSeq(ds, 1, Len(ds) - 1))
  ELSE ds

RECURSIVE SkipSpaces(_)
SkipSpaces(s) == IF s # <<>> /\ Head(s) = " " THEN SkipSpaces(Tail(s)) ELSE s

HasSign(s) == s # <<>> /\ Head(s) \in {"-", "+"}
Unsigned(s) == IF HasSign(s) THEN Tail(s) ELSE s
IsNeg(s) == s # <<>> /\ Head(s) = "-"

\* parseInt(x): the value is converted to a string first, so undefined gives NaN
parseInt(v) ==
  IF v.t # "string" THEN JSNaN
  ELSE LET s == SkipSpaces(v.s)
           ds == TakeDigits(Unsigned(s))
       IN IF ds = <<>> THEN JSNaN
          ELSE JSNumber(IsNeg(s), DigitsToNat(ds), <<>>)

parseFloat(v) ==
  IF v.t # "string" THEN JSNaN
  ELSE LET s == SkipSpaces(v.s)
           u == Unsigned(s)
           ds == TakeDigits(u)
           rest == SubSeq(u, Len(ds) + 1, Len(u))
           fs == IF rest # <<>> /\ Head(rest) = "." THEN TakeDigits(Tail(rest)) ELSE <<>>
       IN IF ds = <<>> /\ fs = <<>> THEN JSNaN
          ELSE JSNumber(IsNeg(s), DigitsToNat(ds), StripTrailingZeros(fs))

identity(v) == v

\* ------------------------------------------------------- server-side data
Undefined == [undefined |-> TRUE]

\* reporters of a record: nobody, or one agent for one property
ReporterSets == {{}} \cup { {<<n, k>>} : n \in PropertyNames, k \in Keys }

Records ==
  [recordId : {RecordId}, owner : Keys, custodian : Keys, final : BOOLEAN,
   reporters : ReporterSets]

AgentName(k) == <<"agent", k>>
Agent(k) == [publicKey |-> k, name |-> AgentName(k)]
ListedAgent(k) == [key |-> k, name |-> AgentName(k)]

\* GET /agents: the agents the server lists
KeyLists == { <<>>, <<"k1">>, <<"k2">>, <<"k1", "k2">> }
AgentLists == { [i \in DOMAIN ks |-> ListedAgent(ks[i])] : ks \in KeyLists }

isReporter(record, name, key) == <<name, key>> \in record.reporters

\* ---------------------------------------------------- payloads collaborator
createProposal(data) == [action |-> "CREATE_PROPOSAL", data |-> data]
updateProperties(data) == [action |-> "UPDATE_PROPERTIES", data |-> data]
finalizeRecord(data) == [action |-> "FINALIZE_RECORD", data |-> data]

\* -------------------------------------------------------------------- state
VARIABLES
  publicKey,     \* api.getPublicKey()
  recordFetch,   \* api.get(`records/${recordId}`): "pending", "resolved", "failed"
  agentFetch,    \* api.get(`agents/${key}`) for "owner" and "custodian"
  resp,          \* values the three fetches resolved with
  state,         \* FishDetail vnode.state: record, owner, custodian
  dropdown,      \* per role: TransferDropdown vnode.state and its agents fetch
  formState,     \* vnode.state of ReportLocation and of each ReportValue
  submits,       \* transactions.submit calls: payloads and promise status
  events,        \* the control activations that led to the submit calls
  log,           \* console.log output
  fetchCount     \* api.get calls issued by FishDetail, per fetch

vars == <<publicKey, recordFetch, agentFetch, resp, state, dropdown, formState,
          submits, events, log, fetchCount>>

Fetches == {"record", "owner", "custodian"}
AgentFetches == {"owner", "custodian"}

NoDropdown == [mounted |-> FALSE, agents |-> <<>>, fetch |-> "unissued", fetched |-> <<>>]

Init ==
  /\ publicKey \in Users
  /\ recordFetch = "pending"
  /\ agentFetch = [f \in AgentFetches |-> "unissued"]
  /\ resp = [f \in Fetches |-> Undefined]
  /\ state = [record |-> Undefined, owner |-> Undefined, custodian |-> Undefined]
  /\ dropdown = [r \in Roles |-> NoDropdown]
  /\ formState = [latitude |-> JSUndefined, longitude |-> JSUndefined,
                  temperature |-> JSUndefined, tilt |-> JSUndefined, shock |-> JSUndefined]
  /\ submits = <<>>
  /\ events = <<>>
  /\ log = <<>>
  /\ fetchCount = [f \in Fetches |-> IF f = "record" THEN 1 ELSE 0]

\* ---------------------------------------------------------- FishDetail.view
Loaded(st) == st.record # Undefined

\* the controls a rendered page can hold
TransferControl(role) ==
  [label |-> IF role = "OWNER" THEN "Transfer Ownership" ELSE "Transfer Custodianship"]
UpdateControl(name) == [label |-> "Update", name |-> name]
FinalizeControl == [label |-> "Finalize"]

\* faulty variant of ShowsTransfer: each dropdown is guarded by the other agent
ShowsTransferSwapped(st, role) ==
  /\ Loaded(st)
  /\ IF role = "OWNER" THEN st.custodian.publicKey = publicKey
                       ELSE st.owner.publicKey = publicKey

\* the TransferDropdown of a role is part of the rendered page
ShowsTransfer(st, role) ==
  /\ Loaded(st)
  /\ IF role = "OWNER" THEN st.owner.publicKey = publicKey
                       ELSE st.custodian.publicKey = publicKey

\* faulty variant of ReportValueAttrs: the temperature row is typed like the others
ReportValueAttrsAllString(name) ==
  [name |-> name, typeField |-> "stringValue", type |-> "STRING", xform |-> "identity"]

\* attrs the view hands to ReportValue for each of its three rows
ReportValueAttrs(name) ==
  CASE name = "temperature" ->
         [name |-> "temperature", typeField |-> "intValue", type |-> "INT", xform |-> "parseInt"]
    [] name = "tilt" ->
         [name |-> "tilt", typeField |-> "stringValue", type |-> "STRING", xform |-> "identity"]
    [] name = "shock" ->
         [name |-> "shock", typeField |-> "stringValue", type |-> "STRING", xform |-> "identity"]

ReportValueNames == {"temperature", "tilt", "shock"}
ViewForms == {"location"} \cup ReportValueNames

\* faulty variant of ShowsReport: the forms are rendered for every user
ShowsReportUnguarded(st, name) ==
  /\ Loaded(st)
  /\ name \in ViewForms

\* the update form of a property is part of the rendered page
ShowsReport(st, name) ==
  /\ Loaded(st)
  /\ name \in ViewForms
  /\ isReporter(st.record, name, publicKey)

\* faulty variant of ShowsFinalize: the final flag is not looked at
ShowsFinalizeIgnoresFinal(st) ==
  /\ Loaded(st)
  /\ st.record.owner = publicKey

ShowsFinalize(st) ==
  /\ Loaded(st)
  /\ st.record.owner = publicKey
  /\ ~st.record.final

ShowsLoading(st) == ~Loaded(st)

Controls(st) ==
  { TransferControl(r) : r \in { q \in Roles : ShowsTransfer(st, q) } }
    \cup { UpdateControl(n) : n \in { q \in PropertyNames : ShowsReport(st, q) } }
    \cup (IF ShowsFinalize(st) THEN {FinalizeControl} ELSE {})

\* -------------------------------------------------------- FishDetail.oninit
PromiseAll(statuses) ==
  IF \E f \in DOMAIN statuses : statuses[f] = "failed" THEN "rejected"
  ELSE IF \A f \in DOMAIN statuses : statuses[f] = "resolved" THEN "fulfilled"
  ELSE "pending"

\* .then(([record, owner, custodian]) => { vnode.state... })
SetState(record, owner, custodian) ==
  [record |-> record, owner |-> owner, custodian |-> custodian]

\* TransferDropdown.oninit: empty agent list, agents fetch issued
TransferDropdownOninit ==
  [mounted |-> TRUE, agents |-> <<>>, fetch |-> "pending", fetched |-> <<>>]

\* first rendering of the loaded page creates the dropdowns it shows
MountDropdowns(st) ==
  [r \in Roles |-> IF ShowsTransfer(st, r) THEN TransferDropdownOninit ELSE NoDropdown]

\* faulty variant of RecordFetchResolve: the record is stored before the agents arrive
RecordFetchResolveSetsRecord(record) ==
  /\ recordFetch = "pending"
  /\ recordFetch' = "resolved"
  /\ resp' = [resp EXCEPT !["record"] = record]
  /\ agentFetch' = [f \in AgentFetches |-> "pending"]
  /\ fetchCount' = [fetchCount EXCEPT !["owner"] = @ + 1, !["custodian"] = @ + 1]
  /\ state' = [state EXCEPT !.record = record]
  /\ UNCHANGED <<publicKey, dropdown, formState, submits, events, log>>

RecordFetchResolve(record) ==
  /\ recordFetch = "pending"
  /\ recordFetch' = "resolved"
  /\ resp' = [resp EXCEPT !["record"] = record]
  /\ agentFetch' = [f \in AgentFetches |-> "pending"]
  /\ fetchCount' = [fetchCount EXCEPT !["owner"] = @ + 1, !["custodian"] = @ + 1]
  /\ UNCHANGED <<publicKey, state, dropdown, formState, submits, events, log>>

\* faulty variant of RecordFetchFail: the record fetch is issued again
RecordFetchFailRetries ==
  /\ recordFetch = "pending"
  /\ fetchCount' = [fetchCount EXCEPT !["record"] = @ + 1]
  /\ UNCHANGED <<publicKey, recordFetch, agentFetch, resp, state, dropdown, formState,
                 submits, events, log>>

RecordFetchFail ==
  /\ recordFetch = "pending"
  /\ recordFetch' = "failed"
  /\ UNCHANGED <<publicKey, agentFetch, resp, state, dropdown, formState,
                 submits, events, log, fetchCount>>

AgentFetchResolve(which) ==
  /\ agentFetch[which] = "pending"
  /\ agentFetch' = [agentFetch EXCEPT ![which] = "resolved"]
  /\ resp' = [resp EXCEPT ![which] = Agent(resp.record[which])]
  /\ IF PromiseAll(agentFetch') = "fulfilled"
       THEN /\ state' = SetState(resp'.record, resp'.owner, resp'.custodian)
            /\ dropdown' = MountDropdowns(state')
       ELSE UNCHANGED <<state, dropdown>>
  /\ UNCHANGED <<publicKey, recordFetch, formState, submits, events, log, fetchCount>>

AgentFetchFail(which) ==
  /\ agentFetch[which] = "pending"
  /\ agentFetch' = [agentFetch EXCEPT ![which] = "failed"]
  /\ UNCHANGED <<publicKey, recordFetch, resp, state, dropdown, formState,
                 submits, events, log, fetchCount>>

\* -------------------------------------------------------- TransferDropdown
\* faulty variant of FilterAgents: the current user is left in the list
FilterAgentsKeepsAll(agents) == agents

FilterAgents(agents) == SelectSeq(agents, LAMBDA agent : agent.key # publicKey)

AgentsFetchResolve(role, agents) ==
  /\ dropdown[role].fetch = "pending"
  /\ dropdown' = [dropdown EXCEPT ![role] =
                    [@ EXCEPT !.fetch = "resolved", !.fetched = agents,
                              !.agents = FilterAgents(agents)]]
  /\ UNCHANGED <<publicKey, recordFetch, agentFetch, resp, state, formState,
                 submits, events, log, fetchCount>>

AgentsFetchFail(role) ==
  /\ dropdown[role].fetch = "pending"
  /\ dropdown' = [dropdown EXCEPT ![role] = [@ EXCEPT !.fetch = "failed"]]
  /\ UNCHANGED <<publicKey, recordFetch, agentFetch, resp, state, formState,
                 submits, events, log, fetchCount>>

\* ---------------------------------------------------- submission helpers
SubmitCall(payloadList, message) ==
  [payloads |-> payloadList, status |-> "pending", onSuccess |-> message]

\* faulty variant of _doTransfer: the role is always OWNER
_doTransferFixedRole(record, role, key) ==
  SubmitCall(<<createProposal([recordId |-> record.recordId,
                               receivingAgent |-> key,
                               role |-> "OWNER"])>>,
             "Successfully submitted proposal")

_doTransfer(record, role, key) ==
  SubmitCall(<<createProposal([recordId |-> record.recordId,
                               receivingAgent |-> key,
                               role |-> role])>>,
             "Successfully submitted proposal")

_updateProperty(record, value) ==
  SubmitCall(<<updateProperties([recordId |-> record.recordId,
                                 properties |-> <<value>>])>>,
             "Successfully submitted property update")

_finalizeRecord(record) ==
  SubmitCall(<<finalizeRecord([recordId |-> record.recordId])>>, "finalized")

\* onclick of a dropdown item: handleSelected(agent.key)
SelectAgent(role, i) ==
  /\ ShowsTransfer(state, role)
  /\ dropdown[role].mounted
  /\ i \in DOMAIN dropdown[role].agents
  /\ Len(submits) < MaxSubmits
  /\ submits' = Append(submits, _doTransfer(state.record, role, dropdown[role].agents[i].key))
  /\ events' = Append(events, [control |-> TransferControl(role),
                               selected |-> dropdown[role].agents[i].key])
  /\ UNCHANGED <<publicKey, recordFetch, agentFetch, resp, state, dropdown, formState,
                 log, fetchCount>>

\* ------------------------------------------- ReportLocation and ReportValue
ChangeLocation(field, v) ==
  /\ ShowsReport(state, "location")
  /\ field \in {"latitude", "longitude"}
  /\ formState' = [formState EXCEPT ![field] = JSString(v)]
  /\ UNCHANGED <<publicKey, recordFetch, agentFetch, resp, state, dropdown, submits,
                 events, log, fetchCount>>

ChangeValue(name, v) ==
  /\ name \in ReportValueNames
  /\ ShowsReport(state, name)
  /\ formState' = [formState EXCEPT ![name] = JSString(v)]
  /\ UNCHANGED <<publicKey, recordFetch, agentFetch, resp, state, dropdown, submits,
                 events, log, fetchCount>>

LocationValue ==
  [name |-> "location",
   locationValue |-> [latitude |-> parseFloat(formState.latitude),
                      longitude |-> parseFloat(formState.longitude)],
   dataType |-> "LOCATION"]

Xform(attrs, v) ==
  IF attrs.xform = "parseInt" THEN parseInt(v) ELSE identity(v)

ReportedValue(attrs) ==
  [f \in {"name", attrs.typeField, "dataType"} |->
     IF f = "name" THEN attrs.name
     ELSE IF f = "dataType" THEN attrs.type
     ELSE Xform(attrs, formState[attrs.name])]

SubmitLocation ==
  /\ ShowsReport(state, "location")
  /\ Len(submits) < MaxSubmits
  /\ submits' = Append(submits, _updateProperty(state.record, LocationValue))
  /\ events' = Append(events, [control |-> UpdateControl("location")])
  /\ UNCHANGED <<publicKey, recordFetch, agentFetch, resp, state, dropdown, formState,
                 log, fetchCount>>

SubmitValue(name) ==
  /\ name \in ReportValueNames
  /\ ShowsReport(state, name)
  /\ Len(submits) < MaxSubmits
  /\ submits' = Append(submits, _updateProperty(state.record, ReportedValue(ReportValueAttrs(name))))
  /\ events' = Append(events, [control |-> UpdateControl(name)])
  /\ UNCHANGED <<publicKey, recordFetch, agentFetch, resp, state, dropdown, formState,
                 log, fetchCount>>

\* ------------------------------------------------------------------ Finalize
\* faulty variant of ClickFinalize: the local record is marked final at once
ClickFinalizeMarksFinal ==
  /\ ShowsFinalize(state)
  /\ Len(submits) < MaxSubmits
  /\ submits' = Append(submits, _finalizeRecord(state.record))
  /\ events' = Append(events, [control |-> FinalizeControl])
  /\ state' = [state EXCEPT !.record.final = TRUE]
  /\ UNCHANGED <<publicKey, recordFetch, agentFetch, resp, dropdown, formState,
                 log, fetchCount>>

ClickFinalize ==
  /\ ShowsFinalize(state)
  /\ Len(submits) < MaxSubmits
  /\ submits' = Append(submits, _finalizeRecord(state.record))
  /\ events' = Append(events, [control |-> FinalizeControl])
  /\ UNCHANGED <<publicKey, recordFetch, agentFetch, resp, state, dropdown, formState,
                 log, fetchCount>>

\* ------------------------------------------- transactions.submit(...).then
SubmitResolve(i) ==
  /\ i \in DOMAIN submits
  /\ submits[i].status = "pending"
  /\ submits' = [submits EXCEPT ![i].status = "ok"]
  /\ log' = Append(log, submits[i].onSuccess)
  /\ UNCHANGED <<publicKey, recordFetch, agentFetch, resp, state, dropdown, formState,
                 events, fetchCount>>

\* faulty variant of SubmitFail: the success callback also runs on rejection
SubmitFailLogs(i) ==
  /\ i \in DOMAIN submits
  /\ submits[i].status = "pending"
  /\ submits' = [submits EXCEPT ![i].status = "failed"]
  /\ log' = Append(log, submits[i].onSuccess)
  /\ UNCHANGED <<publicKey, recordFetch, agentFetch, resp, state, dropdown, formState,
                 events, fetchCount>>

SubmitFail(i) ==
  /\ i \in DOMAIN submits
  /\ submits[i].status = "pending"
  /\ submits' = [submits EXCEPT ![i].status = "failed"]
  /\ UNCHANGED <<publicKey, recordFetch, agentFetch, resp, state, dropdown, formState,
                 events, log, fetchCount>>

Next ==
  \/ \E record \in Records : RecordFetchResolve(record)
  \/ RecordFetchFail
  \/ \E which \in AgentFetches : AgentFetchResolve(which)
  \/ \E which \in AgentFetches : AgentFetchFail(which)
  \/ \E role \in Roles, agents \in AgentLists : AgentsFetchResolve(role, agents)
  \/ \E role \in Roles : AgentsFetchFail(role)
  \/ \E role \in Roles, i \in 1..Cardinality(Keys) : SelectAgent(role, i)
  \/ \E field \in {"latitude", "longitude"}, v \in Inputs : ChangeLocation(field, v)
  \/ \E name \in ReportValueNames, v \in Inputs : ChangeValue(name, v)
  \/ SubmitLocation
  \/ \E name \in ReportValueNames : SubmitValue(name)
  \/ ClickFinalize
  \/ \E i \in 1..MaxSubmits : SubmitResolve(i)
  \/ \E i \in 1..MaxSubmits : SubmitFail(i)

Spec == Init /\ [][Next]_vars

\* ================================================================ properties
CallsOf(action) ==
  { i \in DOMAIN submits : \E j \in DOMAIN submits[i].payloads :
                             submits[i].payloads[j].action = action }

ProposalCalls == CallsOf("CREATE_PROPOSAL")
UpdateCalls == CallsOf("UPDATE_PROPERTIES")
FinalizeCalls == CallsOf("FINALIZE_RECORD")

HolderOf(st, role) == IF role = "OWNER" THEN st.owner ELSE st.custodian

\* C1: a transfer dropdown exists, and a proposal with a given role has been
\* submitted, only if the page is loaded and the current user's public key is
\* the publicKey of the loaded owner (role OWNER) or custodian (role CUSTODIAN).
C1_TransferOnlyByHolder ==
  /\ \A role \in Roles :
       dropdown[role].mounted =>
         Loaded(state) /\ HolderOf(state, role).publicKey = publicKey
  /\ \A i \in ProposalCalls : \A j \in DOMAIN submits[i].payloads :
       /\ Loaded(state)
       /\ submits[i].payloads[j].data.role \in Roles
       /\ HolderOf(state, submits[i].payloads[j].data.role).publicKey = publicKey

C1_Witness ==
  \E i \in ProposalCalls : submits[i].payloads[1].data.role = "OWNER"

\* C2: every submitted property update names location, temperature, tilt or
\* shock, and the current user is a reporter of that property in the loaded record.
C2_UpdateOnlyByReporter ==
  \A i \in UpdateCalls : \A j \in DOMAIN submits[i].payloads :
    \A k \in DOMAIN submits[i].payloads[j].data.properties :
      LET name == submits[i].payloads[j].data.properties[k].name
      IN /\ Loaded(state)
         /\ name \in {"location", "temperature", "tilt", "shock"}
         /\ isReporter(state.record, name, publicKey)

C2_Witness ==
  \E i \in UpdateCalls : submits[i].payloads[1].data.properties[1].name = "location"

\* C3: a finalize payload has been submitted only if the loaded record is owned
\* by the current user and is not final.
C3_FinalizeOnlyByOwnerOfOpenRecord ==
  \A i \in FinalizeCalls :
    /\ Loaded(state)
    /\ state.record.owner = publicKey
    /\ state.record.final = FALSE

C3_Witness == FinalizeCalls # {}

\* ---- C4
SuccessMessages ==
  {"Successfully submitted proposal", "Successfully submitted property update", "finalized"}

MessageOf(action) ==
  CASE action = "CREATE_PROPOSAL" -> "Successfully submitted proposal"
    [] action = "UPDATE_PROPERTIES" -> "Successfully submitted property update"
    [] action = "FINALIZE_RECORD" -> "finalized"

FailedFetches ==
  (IF recordFetch = "failed" THEN {"record"} ELSE {})
    \cup { f \in AgentFetches : agentFetch[f] = "failed" }
    \cup { r \in Roles : dropdown[r].fetch = "failed" }

FailedSubmits == { i \in DOMAIN submits : submits[i].status = "failed" }

FailureLogs == { i \in DOMAIN log : log[i] \notin SuccessMessages }

\* C4 as stated: every failed fetch and every failed submission has its entry in
\* the log.
C4_FailureIsLogged ==
  Cardinality(FailureLogs) >= Cardinality(FailedFetches) + Cardinality(FailedSubmits)

\* C4 as amended: a failed fetch or submission writes nothing to the log; the
\* log holds exactly one success message for each submission that succeeded.
C4_OnlySuccessIsLogged ==
  /\ FailureLogs = {}
  /\ \A m \in SuccessMessages :
       Cardinality({ i \in DOMAIN log : log[i] = m })
         = Cardinality({ i \in DOMAIN submits :
                           /\ submits[i].status = "ok"
                           /\ MessageOf(submits[i].payloads[1].action) = m })

C4_Witness == FailedSubmits # {} /\ FailedFetches # {} /\ log = <<>>

\* C5: each of the record, owner and custodian fetches is issued at most once,
\* and once one of them has failed the record, owner and custodian are unset
\* and the page is the Loading placeholder.
C5_NoRetryNoErrorState ==
  /\ \A f \in Fetches : fetchCount[f] <= 1
  /\ (recordFetch = "failed" \/ \E f \in AgentFetches : agentFetch[f] = "failed") =>
       /\ state.record = Undefined
       /\ state.owner = Undefined
       /\ state.custodian = Undefined
       /\ ShowsLoading(state)
       /\ \A r \in Roles : ~dropdown[r].mounted

C5_Witness ==
  /\ agentFetch["owner"] = "failed"
  /\ agentFetch["custodian"] = "resolved"
  /\ fetchCount = [f \in Fetches |-> 1]

\* C6: every activation of a transfer control is one transactions.submit call
\* with one proposal payload {recordId, receivingAgent, role}: the loaded
\* record's recordId, the selected agent's key, and OWNER for 'Transfer
\* Ownership', CUSTODIAN for 'Transfer Custodianship'.
C6_TransferPayload ==
  /\ Len(submits) = Len(events)
  /\ \A i \in DOMAIN events :
       (events[i].control.label \in {"Transfer Ownership", "Transfer Custodianship"}) <=>
         (i \in ProposalCalls)
  /\ \A i \in ProposalCalls :
       /\ Len(submits[i].payloads) = 1
       /\ DOMAIN submits[i].payloads[1].data = {"recordId", "receivingAgent", "role"}
       /\ submits[i].payloads[1].data.recordId = state.record.recordId
       /\ submits[i].payloads[1].data.receivingAgent = events[i].selected
       /\ submits[i].payloads[1].data.role =
            (IF events[i].control.label = "Transfer Ownership" THEN "OWNER" ELSE "CUSTODIAN")
       /\ \E a \in DOMAIN dropdown[submits[i].payloads[1].data.role].agents :
            dropdown[submits[i].payloads[1].data.role].agents[a].key = events[i].selected

C6_Witness ==
  \E i \in ProposalCalls :
    /\ events[i].control.label = "Transfer Custodianship"
    /\ submits[i].payloads[1].data.receivingAgent = "k2"

\* ---- C7
ExpectedDataType(name) ==
  CASE name = "location" -> "LOCATION"
    [] name = "temperature" -> "INT"
    [] name \in {"tilt", "shock"} -> "STRING"
    [] OTHER -> "none"

ExpectedValueField(name) ==
  CASE name = "location" -> "locationValue"
    [] name = "temperature" -> "intValue"
    [] name \in {"tilt", "shock"} -> "stringValue"
    [] OTHER -> "none"

UpdateEnvelope(i) ==
  /\ Len(submits[i].payloads) = 1
  /\ DOMAIN submits[i].payloads[1].data = {"recordId", "properties"}
  /\ submits[i].payloads[1].data.recordId = state.record.recordId
  /\ Len(submits[i].payloads[1].data.properties) = 1

\* C7 as stated: the single entry of properties has the fields name, value and
\* dataType.
C7_EntryHasValueField ==
  \A i \in UpdateCalls :
    /\ UpdateEnvelope(i)
    /\ LET entry == submits[i].payloads[1].data.properties[1]
       IN /\ DOMAIN entry = {"name", "value", "dataType"}
          /\ entry.dataType = ExpectedDataType(entry.name)

\* C7 as amended: the single entry of properties has the fields name, dataType
\* and one typed value field: locationValue (latitude and longitude) with
\* LOCATION for location, intValue with INT for temperature, stringValue with
\* STRING for tilt and shock.
C7_EntryHasTypedValueField ==
  \A i \in UpdateCalls :
    /\ UpdateEnvelope(i)
    /\ LET entry == submits[i].payloads[1].data.properties[1]
       IN /\ DOMAIN entry = {"name", ExpectedValueField(entry.name), "dataType"}
          /\ entry.dataType = ExpectedDataType(entry.name)
          /\ entry.name = "location" =>
               DOMAIN entry.locationValue = {"latitude", "longitude"}

C7_Witness ==
  \E i \in UpdateCalls :
    /\ submits[i].payloads[1].data.properties[1].name = "temperature"
    /\ submits[i].payloads[1].data.properties[1].intValue.t = "number"

\* C8: record, owner and custodian are set together and only once all three
\* fetches have resolved; while they are unset the page is the Loading
\* placeholder, with no transfer, update or finalize control.
C8_SetTogether ==
  /\ (state.record # Undefined) <=> (state.owner # Undefined)
  /\ (state.owner # Undefined) <=> (state.custodian # Undefined)
  /\ Loaded(state) =>
       /\ recordFetch = "resolved"
       /\ \A f \in AgentFetches : agentFetch[f] = "resolved"
       /\ state = [record |-> resp["record"], owner |-> resp["owner"],
                   custodian |-> resp["custodian"]]
  /\ ~Loaded(state) =>
       /\ ShowsLoading(state)
       /\ Controls(state) = {}
       /\ \A r \in Roles : ~dropdown[r].mounted
       /\ submits = <<>>

C8_Witness ==
  /\ Loaded(state)
  /\ state.owner # Undefined
  /\ state.custodian # Undefined
  /\ Controls(state) # {}

\* C9: a step that submits a payload, or in which a submission succeeds or
\* fails, leaves record, owner and custodian, the fetches and the rendered
\* controls as they were.
C9_SubmissionKeepsViewState ==
  [][submits' # submits =>
       /\ state' = state
       /\ recordFetch' = recordFetch
       /\ agentFetch' = agentFetch
       /\ fetchCount' = fetchCount
       /\ dropdown' = dropdown
       /\ Controls(state') = Controls(state)]_vars

C9_Witness ==
  \E i \in DOMAIN submits :
    /\ submits[i].status = "ok"
    /\ FinalizeControl \in Controls(state)
    /\ i \in FinalizeCalls

\* C10: a dropdown's agent list is empty until its agents fetch resolves,
\* afterwards it is the fetched list without the entries whose key is the
\* current user's public key, and no submitted proposal names the current
\* user as receivingAgent.
C10_NeverOffersCurrentUser ==
  /\ \A r \in Roles :
       /\ dropdown[r].fetch # "resolved" => dropdown[r].agents = <<>>
       /\ dropdown[r].fetch = "resolved" =>
            dropdown[r].agents =
              SelectSeq(dropdown[r].fetched, LAMBDA a : a.key # publicKey)
       /\ \A a \in DOMAIN dropdown[r].agents : dropdown[r].agents[a].key # publicKey
  /\ \A i \in ProposalCalls : submits[i].payloads[1].data.receivingAgent # publicKey

C10_Witness ==
  \E r \in Roles :
    /\ dropdown[r].fetch = "resolved"
    /\ Len(dropdown[r].fetched) = 2
    /\ Len(dropdown[r].agents) = 1

====
